---- MODULE Spec2Model ----
(***************************************************************************)
(* Model of the elevator ENQ simulator (backend-cli/elevator_enq_sim.c).   *)
(* Strings are sequences of byte values (ASCII codes), so that checksums   *)
(* and frame lengths are computed the way the C code computes them.        *)
(***************************************************************************)
EXTENDS Integers, Sequences, FiniteSets, TLC

\* ------------------------------------------------------------------ bounds

\* Starting floors given on the command line: -MaxBelow .. MaxAbove.
MaxBelow == 2
MaxAbove == 4
\* Arguments floor_to_hex is applied to on its own: -HexBelow .. HexAbove.
HexBelow == 20
HexAbove == 80
\* Data values of the checksum inputs: 0 .. MaxDataValue (plus a few picked ones).
MaxDataValue == 31
MaxTime == 23               \* the monitor's clock runs from 0 to MaxTime seconds
MaxRead == 2                \* a read returns at most MaxRead bytes
MaxErrs == 2                \* read errors in a row are counted up to MaxErrs

\* ------------------------------------------------------- program constants

\* Repetitions of a burst stage (i < 5).
Repeats == 5
\* Iterations of the polled ten second wait (i < 10).
LongWait == 10
\* Length in seconds of the unpolled wait, Sleep(3000).
ShortWait == 3
\* Capacity of char cur_hex[5], tgt_hex[5].
HexBufSize == 5

\* ----------------------------------------------------------------- strings

\* "0002" : the station number of send_enq.
Station == <<48, 48, 48, 50>>
\* "W" : the command of send_enq.
Cmd == <<87>>
\* The ENQ control byte, "\x05".
ENQ == 5
IdleLimit == 10             \* if (now - last_activity > 10)
DN_0001 == <<48, 48, 48, 49>>
DN_0002 == <<48, 48, 48, 50>>
DN_0003 == <<48, 48, 48, 51>>
DV_074E == <<48, 55, 52, 69>>
DV_0000 == <<48, 48, 48, 48>>
STR_FFFF == <<70, 70, 70, 70>>

\* A floor table with a ground floor 0 in place of floor 1.
floors_with_zero == <<-1, 0, 2, 3>>

\* int floors[] = { -1, 1, 2, 3 }
floors == <<-1, 1, 2, 3>>
num_floors == Len(floors)
FloorSet == {floors[k] : k \in 1..num_floors}

\* ---------------------------------------------------------- pure functions

\* One digit of printf's %X conversion: 0-9, then uppercase A-F.
HexDigitChar(d) == IF d < 10 THEN 48 + d ELSE 55 + d

\* The digits of %X for a value in 0 .. 2^31 - 1, most significant first, no
\* padding.
RECURSIVE HexDigits(_)
HexDigits(v) ==
    IF v < 16 THEN <<HexDigitChar(v)>>
    ELSE Append(HexDigits(v \div 16), HexDigitChar(v % 16))

\* The field width of %0<w>X: zeros on the left up to w characters, never a cut.
RECURSIVE ZeroPad(_, _)
ZeroPad(s, w) == IF Len(s) >= w THEN s ELSE ZeroPad(<<48>> \o s, w)

\* An int read as an unsigned int (what %X does with its argument), as its
\* two 16-bit halves <<high, low>> (unsigned int is 32 bits wide): v + 2^32
\* for a negative v.
AsUnsigned(v) ==
    IF v >= 0 THEN <<v \div 65536, v % 65536>>
    ELSE LET low == v % 65536
         IN  <<65536 + ((v - low) \div 65536), low>>

\* The digits of %X for an unsigned int given by its halves.
HexDigitsU(u) ==
    IF u[1] = 0 THEN HexDigits(u[2])
    ELSE HexDigits(u[1]) \o ZeroPad(HexDigits(u[2]), 4)

\* sprintf(out, "%0<w>X", v) for an int v.
SprintfX(w, v) == ZeroPad(HexDigitsU(AsUnsigned(v)), w)

\* while (*data) sum += (unsigned char)*data++;  data_part holds at most 63
\* bytes, so the unsigned int sum never wraps.
RECURSIVE SumBytes(_)
SumBytes(data) ==
    IF data = <<>> THEN 0 ELSE data[1] + SumBytes(Tail(data))

\* A checksum that forgets the "& 0xFF".
calculate_checksum_nomask(data) == SprintfX(2, SumBytes(data))

\* calculate_checksum: sprintf(out, "%02X", sum & 0xFF)
calculate_checksum(data) == SprintfX(2, SumBytes(data) % 256)

\* An encoding that writes a basement floor as its magnitude.
floor_to_hex_magnitude(floor) == SprintfX(4, IF floor < 0 THEN 0 - floor ELSE floor)

\* floor_to_hex: "FFFF" for -1, else sprintf(out, "%04X", floor)
floor_to_hex(floor) == IF floor = -1 THEN STR_FFFF ELSE SprintfX(4, floor)

\* send_enq's sprintf(data_part, "%s%s%s%s", station, cmd, dataNum, dataValue)
DataPart(station, cmd, dataNum, dataValue) == station \o cmd \o dataNum \o dataValue

\* send_enq's message: "\x05" data_part checksum
Message(dataNum, dataValue) ==
    LET data_part == DataPart(Station, Cmd, dataNum, dataValue)
    IN  <<ENQ>> \o data_part \o calculate_checksum(data_part)

\* ------------------------------------------------------------------- state

VARIABLES
    pc,             \* position of wmain
    running,        \* static volatile int running
    hSerial,        \* "invalid" | "open" | "closed"
    exitCode,       \* wmain's return value, -1 while it runs
    current_floor,
    target_floor,
    i,              \* the loop counter of the for loop being run
    cur_hex,
    tgt_hex,
    lastFrame,      \* the bytes last handed to WriteFile, <<>> before the first
    lastWriteOk,    \* what that WriteFile returned
    log,            \* history: sends and sleeps of the current cycle
    cycleStart,     \* history: current_floor when the cycle started
    anyFail,        \* history: a WriteFile failed in this cycle
    cancelStage,    \* history: stage in which the flag was first set, "" before
    cancelReps,     \* history: sends that stage had made when the flag was set
    observed,       \* history: the loop has read running == 0
    slept,          \* history: seconds slept with the flag set and not yet read
    sentAfterObs,   \* history: sends attempted after the loop read running == 0
    resampled,      \* history: the do-while of this cycle has drawn again
    arg,            \* input of the pure function under check
    ret,            \* its output, <<>> before the call
    \* the monitor, serial_debug_test.c
    m_pc,           \* position of main / monitor_serial
    m_running,      \* static volatile int running
    fd,             \* "none" | "open" | "closed"
    n,              \* what read returned
    buf,            \* the bytes read
    now,            \* the clock, time(NULL), in seconds
    last_activity,
    m_ret,          \* main's return value, -1 while it runs
    iterLogs,       \* history: frame logs printed in this iteration
    iterBeats,      \* history: heartbeats printed in this iteration
    lastLog,        \* history: the last frame log printed, NoLog before
    lastBeatAt,     \* history: time of the last heartbeat, -1 before
    lastDataAt,     \* history: time of the last frame log, -1 before
    openFailed,     \* history: open_serial has returned -1
    errs,           \* history: read errors in a row, counted up to MaxErrs
    closes,         \* history: close(fd) calls made
    stopped,        \* history: a read has returned with the flag set
    readAfterStop,  \* history: a read was issued after that
    readNotOpen     \* history: a read was issued on a transport not open

scenarioVars == <<pc, running, hSerial, exitCode, current_floor, target_floor, i,
                  cur_hex, tgt_hex, lastFrame, lastWriteOk>>
historyVars == <<log, cycleStart, anyFail, cancelStage, cancelReps, observed, slept,
                 sentAfterObs>>
pureVars == <<arg, ret>>
monitorVars == <<m_pc, m_running, fd, n, buf, now, last_activity, m_ret>>
monitorHistory == <<iterLogs, iterBeats, lastLog, lastBeatAt, lastDataAt,
                    openFailed, errs, closes, stopped, readAfterStop, readNotOpen>>
\* What a step of the transmitter other than the do-while's test leaves alone.
restVars == <<resampled, pureVars, monitorVars, monitorHistory>>
vars == <<scenarioVars, historyVars, resampled, pureVars, monitorVars, monitorHistory>>
\* What a step of the monitor leaves alone.
transmitterVars == <<scenarioVars, historyVars, resampled, pureVars>>

StartFloors == (0 - MaxBelow) .. MaxAbove

\* The stage a position of wmain belongs to.
StageOf(p) ==
    CASE p \in {"while", "select", "select_test"} -> "SelectTarget"
      [] p \in {"hex_cur", "ac_test", "ac_send", "ac_sleep", "ac_chk"} -> "AnnounceCurrent"
      [] p = "w1" -> "Wait1"
      [] p \in {"hex_tgt", "at_test", "at_send", "at_sleep", "at_chk"} -> "AnnounceTarget"
      [] p = "w2" -> "Wait2"
      [] p \in {"pl_test", "pl_send", "pl_sleep", "pl_chk"} -> "PassengerLoad"
      [] p \in {"w3_test", "w3_sleep", "w3_chk"} -> "Wait3"
      [] p \in {"ar_test", "ar_send", "ar_sleep", "assign"} -> "Arrival"
      [] p \in {"w4_test", "w4_sleep"} -> "Wait4"
      [] OTHER -> "none"

BurstStages == {"AnnounceCurrent", "AnnounceTarget", "PassengerLoad", "Arrival"}

SendEv(stage, num, val) == [ev |-> "send", stage |-> stage, num |-> num, val |-> val, units |-> 0]
SleepEv(stage, units) == [ev |-> "sleep", stage |-> stage, num |-> <<>>, val |-> <<>>, units |-> units]

\* Sends of a stage recorded in a log.
SendsOf(l, stage) == Cardinality({k \in 1..Len(l) : l[k].ev = "send" /\ l[k].stage = stage})


\* ---------------------------------------------------------------- helpers

\* A read of the volatile flag: the loop has seen the cancellation once it
\* reads 0.
ReadRunning == observed' = (observed \/ ~running)

\* Sleep(1000 * units): time passes; the flag is not looked at.
Sleep(stage, units) ==
    /\ log' = Append(log, SleepEv(stage, units))
    /\ slept' = IF ~running /\ ~observed THEN slept + units ELSE slept

\* A send that makes a failed WriteFile leave the loop.
AfterSendFatal(ok, next) == IF ok THEN next ELSE "exit"

\* Where wmain goes on after send_enq returned: send_enq returns nothing, on
\* its error path (return) as on its normal path.
AfterSend(ok, next) == next

\* send_enq(dataNum, dataValue, desc); ok is what WriteFile returns.
send_enq(stage, dataNum, dataValue, ok) ==
    /\ lastFrame' = Message(dataNum, dataValue)
    /\ lastWriteOk' = ok
    /\ anyFail' = (anyFail \/ ~ok)
    /\ log' = Append(log, SendEv(stage, dataNum, dataValue))
    /\ sentAfterObs' = IF observed THEN sentAfterObs + 1 ELSE sentAfterObs

\* What writing the string s and its NUL into char buf[HexBufSize] can do:
\* past the end of the array the behaviour is undefined (the bytes land in
\* the neighbouring stack slots and the string reads back whole, or a
\* checked build aborts).
StoreOutcomes(s) == IF Len(s) + 1 > HexBufSize THEN {"intact", "abort"} ELSE {"intact"}

\* A loop test that forgets "&& running".
ForTestBlind(here, bound, body, after) ==
    /\ pc = here
    /\ pc' = IF i < bound THEN body ELSE after
    /\ UNCHANGED <<running, hSerial, exitCode, current_floor, target_floor, i,
                   cur_hex, tgt_hex, lastFrame, lastWriteOk>>
    /\ UNCHANGED historyVars
    /\ UNCHANGED restVars

\* for (int i = 0; i < bound && running; i++): the test. running is read only
\* when i < bound.
ForTest(here, bound, body, after) ==
    /\ pc = here
    /\ pc' = IF i < bound /\ running THEN body ELSE after
    /\ observed' = (observed \/ (i < bound /\ ~running))
    /\ UNCHANGED <<running, hSerial, exitCode, current_floor, target_floor, i,
                   cur_hex, tgt_hex, lastFrame, lastWriteOk>>
    /\ UNCHANGED <<log, cycleStart, anyFail, cancelStage, cancelReps, slept, sentAfterObs>>
    /\ UNCHANGED restVars

\* The body's send_enq call of a burst stage.
BurstSend(here, dataNum, dataValue, next) ==
    /\ pc = here
    /\ \E ok \in BOOLEAN :
          /\ send_enq(StageOf(here), dataNum, dataValue, ok)
          /\ pc' = AfterSend(ok, next)
    /\ UNCHANGED <<running, hSerial, exitCode, current_floor, target_floor, i,
                   cur_hex, tgt_hex>>
    /\ UNCHANGED <<cycleStart, cancelStage, cancelReps, observed, slept>>
    /\ UNCHANGED restVars

\* Sleep(1000) at the end of a loop body, then i++.
BodySleep(here, test) ==
    /\ pc = here
    /\ Sleep(StageOf(here), 1)
    /\ i' = i + 1
    /\ pc' = test
    /\ UNCHANGED <<running, hSerial, exitCode, current_floor, target_floor,
                   cur_hex, tgt_hex, lastFrame, lastWriteOk>>
    /\ UNCHANGED <<cycleStart, anyFail, cancelStage, cancelReps, observed, sentAfterObs>>
    /\ UNCHANGED restVars

\* if (!running) break;  The loop's i is out of scope here; the next for
\* statement starts its own at 0.
BreakCheck(here, next) ==
    /\ pc = here
    /\ pc' = IF running THEN next ELSE "exit"
    /\ ReadRunning
    /\ i' = 0
    /\ UNCHANGED <<running, hSerial, exitCode, current_floor, target_floor,
                   cur_hex, tgt_hex, lastFrame, lastWriteOk>>
    /\ UNCHANGED <<log, cycleStart, anyFail, cancelStage, cancelReps, slept, sentAfterObs>>
    /\ UNCHANGED restVars

\* printf("3秒待機中"); Sleep(3000); one call, then on to the next stage
\* (whose first statement is hex, or whose loop starts with i = 0).
UnpolledWait(here, next) ==
    /\ pc = here
    /\ Sleep(StageOf(here), ShortWait)
    /\ pc' = next
    /\ i' = 0
    /\ UNCHANGED <<running, hSerial, exitCode, current_floor, target_floor,
                   cur_hex, tgt_hex, lastFrame, lastWriteOk>>
    /\ UNCHANGED <<cycleStart, anyFail, cancelStage, cancelReps, observed, sentAfterObs>>
    /\ UNCHANGED restVars


\* ------------------------------------------------- the transmitter, wmain

\* The pure-function variables while the transmitter runs.
PureIdle == arg = <<>> /\ ret = <<>>

\* No frame log has been printed.
NoLog == [at |-> -1, len |-> 0, hex |-> <<>>, ascii |-> <<>>]

\* The monitor's variables while the monitor is not run.
MonitorIdle ==
    /\ m_pc = "idle"
    /\ m_running = TRUE
    /\ fd = "none"
    /\ n = 0
    /\ buf = <<>>
    /\ now = 0
    /\ last_activity = 0
    /\ m_ret = -1
    /\ iterLogs = 0
    /\ iterBeats = 0
    /\ lastLog = NoLog
    /\ lastBeatAt = -1
    /\ lastDataAt = -1
    /\ openFailed = FALSE
    /\ errs = 0
    /\ closes = 0
    /\ stopped = FALSE
    /\ readAfterStop = FALSE
    /\ readNotOpen = FALSE

\* wmain up to init_serial: start_floor is 1 or the int read from the command
\* line, current_floor = start_floor; target_floor, cur_hex and tgt_hex are not
\* yet written (target_floor holds whatever the stack held).
Init ==
    /\ pc = "init"
    /\ running = TRUE
    /\ hSerial = "invalid"
    /\ exitCode = -1
    /\ \/ current_floor = 1                  \* argc < 3
       \/ current_floor \in StartFloors       \* _wtoi(argv[2])
    /\ target_floor \in StartFloors
    /\ i = 0
    /\ cur_hex = <<>>
    /\ tgt_hex = <<>>
    /\ lastFrame = <<>>
    /\ lastWriteOk = TRUE
    /\ log = <<>>
    /\ cycleStart = current_floor
    /\ anyFail = FALSE
    /\ cancelStage = ""
    /\ cancelReps = 0
    /\ observed = FALSE
    /\ slept = 0
    /\ sentAfterObs = 0
    /\ resampled = FALSE
    /\ PureIdle
    /\ MonitorIdle

\* sigint_handler, run asynchronously for SIGINT or SIGTERM: running = 0.
sigint_handler ==
    /\ pc \notin {"done", "failed", "aborted", "checksum", "floor_to_hex", "monitor"}
    /\ running' = FALSE
    /\ cancelStage' = IF running THEN StageOf(pc) ELSE cancelStage
    /\ cancelReps' = IF running THEN SendsOf(log, StageOf(pc)) ELSE cancelReps
    /\ UNCHANGED <<pc, hSerial, exitCode, current_floor, target_floor, i,
                   cur_hex, tgt_hex, lastFrame, lastWriteOk>>
    /\ UNCHANGED <<log, cycleStart, anyFail, observed, slept, sentAfterObs>>
    /\ UNCHANGED restVars

\* if (!init_serial(portW)) return 1;  CreateFileW may fail (handle stays
\* invalid), GetCommState or SetCommState may fail (handle stays open).
InitSerial ==
    /\ pc = "init"
    /\ \E r \in {"ok", "create_fail", "config_fail"} :
          /\ hSerial' = IF r = "create_fail" THEN "invalid" ELSE "open"
          /\ pc' = IF r = "ok" THEN "while" ELSE "failed"
          /\ exitCode' = IF r = "ok" THEN exitCode ELSE 1
    /\ UNCHANGED <<running, current_floor, target_floor, i, cur_hex, tgt_hex,
                   lastFrame, lastWriteOk>>
    /\ UNCHANGED historyVars
    /\ UNCHANGED restVars

\* while (running): a new cycle starts, or the loop is left.
While ==
    /\ pc = "while"
    /\ ReadRunning
    /\ IF running
       THEN /\ pc' = "select"
            /\ log' = <<>>
            /\ cycleStart' = current_floor
            /\ anyFail' = FALSE
            /\ resampled' = FALSE
       ELSE /\ pc' = "exit"
            /\ UNCHANGED <<log, cycleStart, anyFail, resampled>>
    /\ UNCHANGED <<running, hSerial, exitCode, current_floor, target_floor, i,
                   cur_hex, tgt_hex, lastFrame, lastWriteOk>>
    /\ UNCHANGED <<cancelStage, cancelReps, slept, sentAfterObs>>
    /\ UNCHANGED <<pureVars, monitorVars, monitorHistory>>

\* target_floor = floors[rand() % num_floors];
Select ==
    /\ pc = "select"
    /\ \E r \in 0 .. (num_floors - 1) : target_floor' = floors[r + 1]
    /\ pc' = "select_test"
    /\ UNCHANGED <<running, hSerial, exitCode, current_floor, i,
                   cur_hex, tgt_hex, lastFrame, lastWriteOk>>
    /\ UNCHANGED historyVars
    /\ UNCHANGED restVars

\* A do-while that never draws again.
ResampleNever(t, c) == FALSE

\* A do-while that always draws again.
ResampleAlways(t, c) == TRUE

\* The do-while's condition: target_floor == current_floor.
Resample(t, c) == t = c

\* } while (target_floor == current_floor);
SelectTest ==
    /\ pc = "select_test"
    /\ pc' = IF Resample(target_floor, current_floor) THEN "select" ELSE "hex_cur"
    /\ resampled' = (resampled \/ Resample(target_floor, current_floor))
    /\ UNCHANGED <<running, hSerial, exitCode, current_floor, target_floor, i,
                   cur_hex, tgt_hex, lastFrame, lastWriteOk>>
    /\ UNCHANGED historyVars
    /\ UNCHANGED <<pureVars, monitorVars, monitorHistory>>

\* char cur_hex[5]; floor_to_hex(current_floor, cur_hex); then i = 0.
HexCur ==
    /\ pc = "hex_cur"
    /\ LET s == floor_to_hex(current_floor)
       IN  \E o \in StoreOutcomes(s) :
              /\ pc' = IF o = "abort" THEN "aborted" ELSE "ac_test"
              /\ cur_hex' = IF o = "abort" THEN cur_hex ELSE s
    /\ i' = 0
    /\ UNCHANGED <<running, hSerial, exitCode, current_floor, target_floor,
                   tgt_hex, lastFrame, lastWriteOk>>
    /\ UNCHANGED historyVars
    /\ UNCHANGED restVars

AnnounceCurrentTest ==
    /\ pc = "ac_test"
    /\ ForTest("ac_test", Repeats, "ac_send", "ac_chk")
AnnounceCurrentSend ==
    /\ pc = "ac_send"
    /\ BurstSend("ac_send", DN_0001, cur_hex, "ac_sleep")
AnnounceCurrentSleep ==
    /\ pc = "ac_sleep"
    /\ BodySleep("ac_sleep", "ac_test")
AnnounceCurrentBreak ==
    /\ pc = "ac_chk"
    /\ BreakCheck("ac_chk", "w1")
Wait1 ==
    /\ pc = "w1"
    /\ UnpolledWait("w1", "hex_tgt")

\* char tgt_hex[5]; floor_to_hex(target_floor, tgt_hex); then i = 0.
HexTgt ==
    /\ pc = "hex_tgt"
    /\ LET s == floor_to_hex(target_floor)
       IN  \E o \in StoreOutcomes(s) :
              /\ pc' = IF o = "abort" THEN "aborted" ELSE "at_test"
              /\ tgt_hex' = IF o = "abort" THEN tgt_hex ELSE s
    /\ i' = 0
    /\ UNCHANGED <<running, hSerial, exitCode, current_floor, target_floor,
                   cur_hex, lastFrame, lastWriteOk>>
    /\ UNCHANGED historyVars
    /\ UNCHANGED restVars

AnnounceTargetTest ==
    /\ pc = "at_test"
    /\ ForTest("at_test", Repeats, "at_send", "at_chk")
AnnounceTargetSend ==
    /\ pc = "at_send"
    /\ BurstSend("at_send", DN_0002, tgt_hex, "at_sleep")
AnnounceTargetSleep ==
    /\ pc = "at_sleep"
    /\ BodySleep("at_sleep", "at_test")
\* A second stage that goes on to the third without its 3 second wait.
AnnounceTargetBreakNoWait ==
    /\ pc = "at_chk"
    /\ BreakCheck("at_chk", "pl_test")

AnnounceTargetBreak ==
    /\ pc = "at_chk"
    /\ BreakCheck("at_chk", "w2")

Wait2 ==
    /\ pc = "w2"
    /\ UnpolledWait("w2", "pl_test")

PassengerLoadTest ==
    /\ pc = "pl_test"
    /\ ForTest("pl_test", Repeats, "pl_send", "pl_chk")
PassengerLoadSend ==
    /\ pc = "pl_send"
    /\ BurstSend("pl_send", DN_0003, DV_074E, "pl_sleep")
PassengerLoadSleep ==
    /\ pc = "pl_sleep"
    /\ BodySleep("pl_sleep", "pl_test")
PassengerLoadBreak ==
    /\ pc = "pl_chk"
    /\ BreakCheck("pl_chk", "w3_test")

\* for (int i = 0; i < 10 && running; i++) Sleep(1000);
Wait3Test ==
    /\ pc = "w3_test"
    /\ ForTest("w3_test", LongWait, "w3_sleep", "w3_chk")
Wait3Sleep ==
    /\ pc = "w3_sleep"
    /\ BodySleep("w3_sleep", "w3_test")
Wait3Break ==
    /\ pc = "w3_chk"
    /\ BreakCheck("w3_chk", "ar_test")

ArrivalTest ==
    /\ pc = "ar_test"
    /\ ForTest("ar_test", Repeats, "ar_send", "assign")
ArrivalSend ==
    /\ pc = "ar_send"
    /\ BurstSend("ar_send", DN_0002, DV_0000, "ar_sleep")
ArrivalSleep ==
    /\ pc = "ar_sleep"
    /\ BodySleep("ar_sleep", "ar_test")

\* An end of Arrival that leaves current_floor as it was.
AssignKeeps ==
    /\ pc = "assign"
    /\ pc' = "w4_test"
    /\ i' = 0
    /\ UNCHANGED <<running, hSerial, exitCode, current_floor, target_floor,
                   cur_hex, tgt_hex, lastFrame, lastWriteOk>>
    /\ UNCHANGED historyVars
    /\ UNCHANGED restVars

\* current_floor = target_floor; printf("着床完了"); it follows the fourth
\* loop directly: there is no if (!running) break; between them.
Assign ==
    /\ pc = "assign"
    /\ current_floor' = target_floor
    /\ pc' = "w4_test"
    /\ i' = 0
    /\ UNCHANGED <<running, hSerial, exitCode, target_floor,
                   cur_hex, tgt_hex, lastFrame, lastWriteOk>>
    /\ UNCHANGED historyVars
    /\ UNCHANGED restVars

\* for (int i = 0; i < 10 && running; i++) Sleep(1000); then the while test.
Wait4Test ==
    /\ pc = "w4_test"
    /\ ForTest("w4_test", LongWait, "w4_sleep", "while")
Wait4Sleep ==
    /\ pc = "w4_sleep"
    /\ BodySleep("w4_sleep", "w4_test")

\* After the loop: CloseHandle(hSerial) if it is valid; return 0.
Exit ==
    /\ pc = "exit"
    /\ hSerial' = IF hSerial # "invalid" THEN "closed" ELSE hSerial
    /\ exitCode' = 0
    /\ pc' = "done"
    /\ UNCHANGED <<running, current_floor, target_floor, i, cur_hex, tgt_hex,
                   lastFrame, lastWriteOk>>
    /\ UNCHANGED historyVars
    /\ UNCHANGED restVars

Next ==
    \/ sigint_handler
    \/ InitSerial
    \/ While
    \/ Select
    \/ SelectTest
    \/ HexCur
    \/ AnnounceCurrentTest
    \/ AnnounceCurrentSend
    \/ AnnounceCurrentSleep
    \/ AnnounceCurrentBreak
    \/ Wait1
    \/ HexTgt
    \/ AnnounceTargetTest
    \/ AnnounceTargetSend
    \/ AnnounceTargetSleep
    \/ AnnounceTargetBreak
    \/ Wait2
    \/ PassengerLoadTest
    \/ PassengerLoadSend
    \/ PassengerLoadSleep
    \/ PassengerLoadBreak
    \/ Wait3Test
    \/ Wait3Sleep
    \/ Wait3Break
    \/ ArrivalTest
    \/ ArrivalSend
    \/ ArrivalSleep
    \/ Assign
    \/ Wait4Test
    \/ Wait4Sleep
    \/ Exit

Spec == Init /\ [][Next]_vars

\* A draw of rand() that gives a floor other than current_floor.
DrawOther == Select /\ target_floor' # current_floor

\* The do-while under a fair rand(): the draw and the test are always taken
\* in the end, and a draw that can give another floor again and again does
\* give one.
SpecFair ==
    /\ Init
    /\ [][Next]_vars
    /\ WF_vars(Select)
    /\ WF_vars(SelectTest)
    /\ SF_vars(DrawOther)

\* The transmitter scheduled: besides the fair draw, a step of wmain that
\* can be taken is taken in the end (a Sleep returns, WriteFile returns).
SpecLive ==
    /\ Init
    /\ [][Next]_vars
    /\ WF_vars(Next)
    /\ SF_vars(DrawOther)


\* ------------------------------------------ the pure functions on their own

\* The transmitter's variables while a pure function is applied on its own.
ScenarioIdle ==
    /\ running = TRUE
    /\ hSerial = "invalid"
    /\ exitCode = -1
    /\ current_floor = 1
    /\ target_floor = 1
    /\ i = 0
    /\ cur_hex = <<>>
    /\ tgt_hex = <<>>
    /\ lastFrame = <<>>
    /\ lastWriteOk = TRUE
    /\ log = <<>>
    /\ cycleStart = 1
    /\ anyFail = FALSE
    /\ cancelStage = ""
    /\ cancelReps = 0
    /\ observed = FALSE
    /\ slept = 0
    /\ sentAfterObs = 0
    /\ resampled = FALSE

\* Data parts to sum: station, command, data number, data value, each of its
\* fixed width. "0089" and "0096" make sums that are multiples of 256 occur.
ChecksumStations == {Station, <<48, 48, 56, 57>>}
ChecksumCommands == {Cmd, <<82>>}
ChecksumNumbers == {DN_0001, DN_0002, DN_0003, <<48, 48, 57, 54>>}
ChecksumValues ==
    {SprintfX(4, v) : v \in 0 .. MaxDataValue} \cup {DV_074E, STR_FFFF, SprintfX(4, 65534)}
ChecksumInputs ==
    [station : ChecksumStations, cmd : ChecksumCommands,
     num : ChecksumNumbers, val : ChecksumValues]

InitChecksum ==
    /\ pc = "checksum"
    /\ arg \in ChecksumInputs
    /\ ret = <<>>
    /\ ScenarioIdle
    /\ MonitorIdle

\* send_enq's call: calculate_checksum(data_part, checksum)
CallChecksum ==
    /\ pc = "checksum"
    /\ ret = <<>>
    /\ ret' = calculate_checksum(DataPart(arg.station, arg.cmd, arg.num, arg.val))
    /\ UNCHANGED <<arg, scenarioVars, historyVars, resampled, monitorVars, monitorHistory>>

SpecChecksum == InitChecksum /\ [][CallChecksum]_vars

InitFloorHex ==
    /\ pc = "floor_to_hex"
    /\ arg \in (0 - HexBelow) .. HexAbove
    /\ ret = <<>>
    /\ ScenarioIdle
    /\ MonitorIdle

\* wmain's calls: floor_to_hex(floor, out)
CallFloorHex ==
    /\ pc = "floor_to_hex"
    /\ ret = <<>>
    /\ ret' = floor_to_hex(arg)
    /\ UNCHANGED <<arg, scenarioVars, historyVars, resampled, monitorVars, monitorHistory>>

SpecFloorHex == InitFloorHex /\ [][CallFloorHex]_vars


\* ------------------------------------------- the monitor, serial_debug_test.c

\* Bytes a read may deliver: ENQ, which is not printable and has a one-digit
\* hex value, and '~', the last printable one.
MonitorBytes == {5, 126}

\* for (i < n) sprintf(hexstr + i*2, "%02X", buf[i]);
RECURSIVE HexView(_, _)
HexView(b, k) == IF k = 0 THEN <<>> ELSE HexView(b, k - 1) \o SprintfX(2, b[k])

\* (b >= 32 && b <= 126) ? b : '.'
AsciiChar(b) == IF b >= 32 /\ b <= 126 THEN b ELSE 46

\* for (i < n) ascstr[i] = ...;
AsciiView(b, k) == [j \in 1 .. k |-> AsciiChar(b[j])]

\* A heartbeat test that fires at the limit already.
IdleReached(t, la) == t - la >= IdleLimit

\* if (now - last_activity > 10)
IdleExceeded(t, la) == t - la > IdleLimit

\* A loop test that never sees the flag.
MonReadRunningBlind == TRUE

\* while (running): the loop's read of the flag.
MonReadRunning == m_running

\* main has been started; the transmitter is not run.
InitMonitor ==
    /\ pc = "monitor"
    /\ ScenarioIdle
    /\ PureIdle
    /\ m_pc = "m_main"
    /\ m_running = TRUE
    /\ fd = "none"
    /\ n = 0
    /\ buf = <<>>
    /\ now = 0
    /\ last_activity = 0
    /\ m_ret = -1
    /\ iterLogs = 0
    /\ iterBeats = 0
    /\ lastLog = NoLog
    /\ lastBeatAt = -1
    /\ lastDataAt = -1
    /\ openFailed = FALSE
    /\ errs = 0
    /\ closes = 0
    /\ stopped = FALSE
    /\ readAfterStop = FALSE
    /\ readNotOpen = FALSE

\* A second passes on the clock that time(NULL) reads, while the loop runs.
MonTick ==
    /\ m_pc \in {"m_while", "m_read", "m_got"}
    /\ now < MaxTime
    /\ now' = now + 1
    /\ UNCHANGED <<m_pc, m_running, fd, n, buf, last_activity, m_ret>>
    /\ UNCHANGED monitorHistory
    /\ UNCHANGED transmitterVars

\* handle_sigint, run asynchronously for SIGINT or SIGTERM once signal() has
\* installed it: running = 0.
handle_sigint ==
    /\ m_pc \in {"m_while", "m_read", "m_got", "m_exit"}
    /\ m_running' = FALSE
    /\ UNCHANGED <<m_pc, fd, n, buf, now, last_activity, m_ret>>
    /\ UNCHANGED monitorHistory
    /\ UNCHANGED transmitterVars

\* main: "test" probes the ports (each opened and closed again in
\* test_serial_ports) and returns 0; a port name, or no argument after the
\* probe, calls monitor_serial.
MonMain ==
    /\ m_pc = "m_main"
    /\ \E mode \in {"test", "port", "default"} :
          /\ m_pc' = IF mode = "test" THEN "m_done" ELSE "m_open"
          /\ m_ret' = IF mode = "test" THEN 0 ELSE m_ret
    /\ UNCHANGED <<m_running, fd, n, buf, now, last_activity>>
    /\ UNCHANGED monitorHistory
    /\ UNCHANGED transmitterVars

\* int fd = open_serial(port, 0): open may fail; tcgetattr or tcsetattr may
\* fail, and then open_serial closes the descriptor; both return -1.
MonOpen ==
    /\ m_pc = "m_open"
    /\ \E r \in {"ok", "open_fail", "attr_fail"} :
          /\ fd' = CASE r = "ok" -> "open"
                     [] r = "open_fail" -> "none"
                     [] r = "attr_fail" -> "closed"
          /\ closes' = IF r = "attr_fail" THEN closes + 1 ELSE closes
          /\ openFailed' = (r # "ok")
          /\ m_pc' = IF r = "ok" THEN "m_start" ELSE "m_open_failed"
    /\ UNCHANGED <<m_running, n, buf, now, last_activity, m_ret>>
    /\ UNCHANGED <<iterLogs, iterBeats, lastLog, lastBeatAt, lastDataAt, errs,
                   stopped, readAfterStop, readNotOpen>>
    /\ UNCHANGED transmitterVars

\* if (fd < 0) { fprintf(stderr, ...); return; } and main's return 0 after
\* the call of monitor_serial.
MonOpenFailed ==
    /\ m_pc = "m_open_failed"
    /\ m_pc' = "m_done"
    /\ m_ret' = 0
    /\ UNCHANGED <<m_running, fd, n, buf, now, last_activity>>
    /\ UNCHANGED monitorHistory
    /\ UNCHANGED transmitterVars

\* The banner, signal(SIGINT / SIGTERM, handle_sigint), and
\* last_activity = time(NULL).
MonStart ==
    /\ m_pc = "m_start"
    /\ last_activity' = now
    /\ m_pc' = "m_while"
    /\ UNCHANGED <<m_running, fd, n, buf, now, m_ret>>
    /\ UNCHANGED monitorHistory
    /\ UNCHANGED transmitterVars

\* while (running): the next iteration calls read, or the loop is left.
MonWhile ==
    /\ m_pc = "m_while"
    /\ IF MonReadRunning
       THEN /\ m_pc' = "m_read"
            /\ iterLogs' = 0
            /\ iterBeats' = 0
            /\ readAfterStop' = (readAfterStop \/ stopped)
            /\ readNotOpen' = (readNotOpen \/ fd # "open")
       ELSE /\ m_pc' = "m_exit"
            /\ UNCHANGED <<iterLogs, iterBeats, readAfterStop, readNotOpen>>
    /\ UNCHANGED <<m_running, fd, n, buf, now, last_activity, m_ret>>
    /\ UNCHANGED <<lastLog, lastBeatAt, lastDataAt, openFailed, errs, closes, stopped>>
    /\ UNCHANGED transmitterVars

\* int n = read(fd, buf, sizeof(buf)) returns: an error, a timeout with no
\* byte, or some bytes.
MonRead ==
    /\ m_pc = "m_read"
    /\ \E r \in -1 .. MaxRead :
          /\ n' = r
          /\ IF r > 0
             THEN \E b \in [1 .. r -> MonitorBytes] : buf' = b
             ELSE buf' = buf
          /\ errs' = IF r >= 0 THEN 0 ELSE IF errs < MaxErrs THEN errs + 1 ELSE errs
    /\ stopped' = (stopped \/ ~m_running)
    /\ m_pc' = "m_got"
    /\ UNCHANGED <<m_running, fd, now, last_activity, m_ret>>
    /\ UNCHANGED <<iterLogs, iterBeats, lastLog, lastBeatAt, lastDataAt, openFailed,
                   closes, readAfterStop, readNotOpen>>
    /\ UNCHANGED transmitterVars

\* A read error that ends the loop.
MonErrorFatal ==
    /\ m_pc = "m_got"
    /\ n < 0
    /\ m_pc' = "m_exit"
    /\ UNCHANGED <<m_running, fd, n, buf, now, last_activity, m_ret>>
    /\ UNCHANGED monitorHistory
    /\ UNCHANGED transmitterVars

\* if (n < 0) { usleep(100000); continue; }
MonError ==
    /\ m_pc = "m_got"
    /\ n < 0
    /\ m_pc' = "m_while"
    /\ UNCHANGED <<m_running, fd, n, buf, now, last_activity, m_ret>>
    /\ UNCHANGED monitorHistory
    /\ UNCHANGED transmitterVars

\* A frame log that leaves the idle timer alone.
MonDataNoReset ==
    /\ m_pc = "m_got"
    /\ n > 0
    /\ lastLog' = [at |-> now, len |-> n, hex |-> HexView(buf, n), ascii |-> AsciiView(buf, n)]
    /\ iterLogs' = iterLogs + 1
    /\ lastDataAt' = now
    /\ m_pc' = "m_while"
    /\ UNCHANGED <<m_running, fd, n, buf, now, last_activity, m_ret>>
    /\ UNCHANGED <<iterBeats, lastBeatAt, openFailed, errs, closes, stopped,
                   readAfterStop, readNotOpen>>
    /\ UNCHANGED transmitterVars

\* if (n > 0): now = time(NULL), the hex and the ASCII view of the n bytes,
\* the three printf of the frame log, last_activity = now.
MonData ==
    /\ m_pc = "m_got"
    /\ n > 0
    /\ lastLog' = [at |-> now, len |-> n, hex |-> HexView(buf, n), ascii |-> AsciiView(buf, n)]
    /\ iterLogs' = iterLogs + 1
    /\ lastDataAt' = now
    /\ last_activity' = now
    /\ m_pc' = "m_while"
    /\ UNCHANGED <<m_running, fd, n, buf, now, m_ret>>
    /\ UNCHANGED <<iterBeats, lastBeatAt, openFailed, errs, closes, stopped,
                   readAfterStop, readNotOpen>>
    /\ UNCHANGED transmitterVars

\* else (n == 0): now = time(NULL); past the idle limit the heartbeat line is
\* printed and last_activity = now.
MonTimeout ==
    /\ m_pc = "m_got"
    /\ n = 0
    /\ IF IdleExceeded(now, last_activity)
       THEN /\ iterBeats' = iterBeats + 1
            /\ lastBeatAt' = now
            /\ last_activity' = now
       ELSE UNCHANGED <<iterBeats, lastBeatAt, last_activity>>
    /\ m_pc' = "m_while"
    /\ UNCHANGED <<m_running, fd, n, buf, now, m_ret>>
    /\ UNCHANGED <<iterLogs, lastLog, lastDataAt, openFailed, errs, closes, stopped,
                   readAfterStop, readNotOpen>>
    /\ UNCHANGED transmitterVars

\* After the loop: printf, close(fd), and main's return 0.
MonExit ==
    /\ m_pc = "m_exit"
    /\ fd' = "closed"
    /\ closes' = closes + 1
    /\ m_ret' = 0
    /\ m_pc' = "m_done"
    /\ UNCHANGED <<m_running, n, buf, now, last_activity>>
    /\ UNCHANGED <<iterLogs, iterBeats, lastLog, lastBeatAt, lastDataAt, openFailed,
                   errs, stopped, readAfterStop, readNotOpen>>
    /\ UNCHANGED transmitterVars

NextMonitor ==
    \/ MonTick
    \/ handle_sigint
    \/ MonMain
    \/ MonOpen
    \/ MonOpenFailed
    \/ MonStart
    \/ MonWhile
    \/ MonRead
    \/ MonError
    \/ MonData
    \/ MonTimeout
    \/ MonExit

SpecMonitor == InitMonitor /\ [][NextMonitor]_vars


\* ------------------------------------------------------------------ claims

\* k copies of the sequence s, one after the other.
RECURSIVE Times(_, _)
Times(k, s) == IF k = 0 THEN <<>> ELSE s \o Times(k - 1, s)

\* Five telegrams of a stage, each followed by its 1-unit gap.
ExpectedBurst(stage, num, val) == Times(5, <<SendEv(stage, num, val), SleepEv(stage, 1)>>)

\* The sends and sleeps of one whole cycle from floor cur to floor tgt.
ExpectedCycle(cur, tgt) ==
    ExpectedBurst("AnnounceCurrent", DN_0001, floor_to_hex(cur))
    \o <<SleepEv("Wait1", 3)>>
    \o ExpectedBurst("AnnounceTarget", DN_0002, floor_to_hex(tgt))
    \o <<SleepEv("Wait2", 3)>>
    \o ExpectedBurst("PassengerLoad", DN_0003, DV_074E)
    \o Times(10, <<SleepEv("Wait3", 1)>>)
    \o ExpectedBurst("Arrival", DN_0002, DV_0000)
    \o Times(10, <<SleepEv("Wait4", 1)>>)

IsPrefix(s, full) == Len(s) <= Len(full) /\ s = SubSeq(full, 1, Len(s))

\* How many sends and sleeps of its cycle an uncancelled run has made at
\* position p with loop counter k (-1 where wmain is outside the loop).
Progress(p, k) ==
    CASE p \in {"select", "select_test", "hex_cur"} -> 0
      [] p \in {"ac_test", "ac_send"} -> 2 * k
      [] p = "ac_sleep" -> 2 * k + 1
      [] p \in {"ac_chk", "w1"} -> 10
      [] p = "hex_tgt" -> 11
      [] p \in {"at_test", "at_send"} -> 11 + 2 * k
      [] p = "at_sleep" -> 12 + 2 * k
      [] p \in {"at_chk", "w2"} -> 21
      [] p \in {"pl_test", "pl_send"} -> 22 + 2 * k
      [] p = "pl_sleep" -> 23 + 2 * k
      [] p = "pl_chk" -> 32
      [] p \in {"w3_test", "w3_sleep"} -> 32 + k
      [] p = "w3_chk" -> 42
      [] p \in {"ar_test", "ar_send"} -> 42 + 2 * k
      [] p = "ar_sleep" -> 43 + 2 * k
      [] p = "assign" -> 52
      [] p \in {"w4_test", "w4_sleep"} -> 52 + k
      [] p = "while" -> 62
      [] OTHER -> -1

InLoop == Progress(pc, i) >= 0

\* C1: while the cancellation flag has never been set, the sends and sleeps
\* of the current cycle are exactly the first Progress(pc, i) ones of
\* AnnounceCurrent x5, Wait 3, AnnounceTarget x5, Wait 3, PassengerLoad x5,
\* Wait 10, Arrival x5, Wait 10 (each telegram followed by its 1-unit gap),
\* with the data numbers and values of the claim; when the while test is
\* reached again all 62 have been made, in that order.
C1_StageOrderFixed ==
    (running /\ InLoop) =>
        /\ IsPrefix(log, ExpectedCycle(cycleStart, target_floor))
        /\ \/ Len(log) = Progress(pc, i)
           \/ pc = "while" /\ log = <<>>

\* C1 witness: a whole cycle has been run without cancellation.
C1_Witness == pc = "while" /\ running /\ Len(log) = 62

\* C2: current_floor changes only at a step where all five Arrival sends of
\* the cycle have been attempted.
C2_FloorOnlyAfterFullArrival ==
    [][current_floor' # current_floor => SendsOf(log, "Arrival") = 5]_vars

\* A send of the log made in a stage that comes after stage s.
StageRank(s) ==
    CASE s = "AnnounceCurrent" -> 1
      [] s = "AnnounceTarget" -> 2
      [] s = "PassengerLoad" -> 3
      [] s = "Arrival" -> 4
      [] OTHER -> 0
LaterSends(l, s) ==
    {k \in 1..Len(l) : l[k].ev = "send" /\ StageRank(l[k].stage) > StageRank(s)}

\* C3: when the flag was set in a burst stage that had made fewer than five
\* sends, then at termination no send was made once the loop had read the
\* flag (a telegram whose loop test had passed before the signal is already
\* under way and is not counted), no later stage has sent anything, and
\* current_floor is what it was when the cycle started.
C3_CancelMidStage ==
    (pc = "done" /\ cancelStage \in BurstStages /\ cancelReps < 5) =>
        /\ sentAfterObs = 0
        /\ LaterSends(log, cancelStage) = {}
        /\ current_floor = cycleStart

\* C4: from the moment SelectTarget is left until the floor is taken over at
\* the end of Arrival, target_floor is one of -1, 1, 2, 3 and differs from
\* current_floor; in particular in every state of the AnnounceCurrent stage.
C4_TargetDiffers ==
    (InLoop /\ pc \notin {"while", "select", "select_test", "w4_test", "w4_sleep"}) =>
        /\ target_floor \in {-1, 1, 2, 3}
        /\ target_floor # current_floor

\* C4 witness: an AnnounceCurrent send is about to be made from a starting
\* floor outside the floor set.
C4_Witness == pc = "ac_send" /\ current_floor \notin {-1, 1, 2, 3} /\ i = 4

\* C5 as stated: once the flag is set the loop sleeps at most one more
\* time-unit before it reads the flag.
C5_PolledEveryUnit == slept <= 1

\* C5 amended: once the flag is set the loop sleeps at most 3 more time-units
\* before it reads the flag, and more than one only when the sleep was one
\* of the two 3-unit waits, which are single sleeps.
C5_CancelLatency ==
    /\ slept <= 3
    /\ slept > 1 =>
          /\ log # <<>>
          /\ log[Len(log)] \in {SleepEv("Wait1", 3), SleepEv("Wait2", 3)}

\* C5 witness: the flag was set before a 3-unit wait and read after it.
C5_Witness == slept = 3 /\ observed /\ pc = "done"


\* The value of an uppercase hex digit, -1 for any other byte.
HexVal(c) == IF c \in 48..57 THEN c - 48 ELSE IF c \in 65..70 THEN c - 55 ELSE -1

\* s[1] + ... + s[k]
RECURSIVE TotalTo(_, _)
TotalTo(s, k) == IF k = 0 THEN 0 ELSE s[k] + TotalTo(s, k - 1)

ArgTotal ==
    LET d == arg.station \o arg.cmd \o arg.num \o arg.val IN TotalTo(d, Len(d))

\* C6: the checksum of a data part is exactly two uppercase hex digits whose
\* value is the sum of the data part's bytes mod 256; "00" when that sum is
\* a multiple of 256.
C6_ChecksumLow8Bits ==
    (pc = "checksum" /\ ret # <<>>) =>
        /\ Len(ret) = 2
        /\ HexVal(ret[1]) >= 0
        /\ HexVal(ret[2]) >= 0
        /\ 16 * HexVal(ret[1]) + HexVal(ret[2]) = ArgTotal % 256
        /\ ArgTotal % 256 = 0 => ret = <<48, 48>>

\* C6 witness: a data part whose bytes sum to a multiple of 256 has been
\* summed.
C6_Witness == pc = "checksum" /\ ret # <<>> /\ ArgTotal > 0 /\ ArgTotal % 256 = 0

\* C7: every frame handed to WriteFile is 16 bytes long: 0x05, "0002", "W",
\* a 4-character data number, a 4-character data value of hex digits, and
\* the 2-character checksum of the 13 characters before it.
C7_FrameLayout ==
    lastFrame # <<>> =>
        /\ Len(lastFrame) = 16
        /\ lastFrame[1] = 5
        /\ SubSeq(lastFrame, 2, 5) = <<48, 48, 48, 50>>
        /\ lastFrame[6] = 87
        /\ SubSeq(lastFrame, 7, 10) \in {DN_0001, DN_0002, DN_0003}
        /\ \A k \in 11..14 : HexVal(lastFrame[k]) >= 0
        /\ LET total == TotalTo(lastFrame, 14) - 5
           IN  16 * HexVal(lastFrame[15]) + HexVal(lastFrame[16]) = total % 256

\* The 4-digit uppercase hex encoding of u in 0 .. 65535.
Hex16(u) ==
    LET D(d) == <<48, 49, 50, 51, 52, 53, 54, 55, 56, 57, 65, 66, 67, 68, 69, 70>>[d + 1]
    IN  <<D(u \div 4096), D((u \div 256) % 16), D((u \div 16) % 16), D(u % 16)>>

\* C8: floor_to_hex gives "FFFF" for -1 and for every other f the 4-digit
\* uppercase hex encoding of f as an unsigned 16-bit value.
C8_FloorHex16Bit ==
    (pc = "floor_to_hex" /\ ret # <<>>) =>
        ret = IF arg = -1 THEN <<70, 70, 70, 70>> ELSE Hex16(arg % 65536)

\* C9: in a cycle in which a write has failed, the sends and sleeps made are
\* still the first ones of the fixed cycle, as many as in the run without
\* failures, current_floor is the floor of the cycle's start until the end
\* of Arrival and the target after it, and the loop is left only when it
\* has read the cancellation flag.
C9_WriteFailureHarmless ==
    anyFail =>
        /\ IsPrefix(log, ExpectedCycle(cycleStart, target_floor))
        /\ (running /\ InLoop) => Len(log) = Progress(pc, i)
        /\ InLoop =>
              current_floor = IF pc \in {"w4_test", "w4_sleep", "while"}
                              THEN target_floor ELSE cycleStart
        /\ pc \in {"exit", "done"} => observed

\* C9 witness: a cycle has been run to its end whose last write, at least,
\* failed.
C9_Witness == anyFail /\ ~lastWriteOk /\ pc = "while" /\ running /\ Len(log) = 62

C11_FloorAssignedOnceAtArrival ==
    /\ [](InLoop =>
            current_floor = IF pc \in {"w4_test", "w4_sleep"} \/ (pc = "while" /\ Len(log) >= 42)
                            THEN target_floor ELSE cycleStart)
    /\ [][/\ current_floor' # current_floor => pc = "assign"
          /\ (pc = "assign" /\ pc' # pc) =>
                 current_floor' = target_floor /\ current_floor' # current_floor
          /\ (InLoop /\ pc \notin {"select", "while"}) => target_floor' = target_floor
          /\ (pc = "while" /\ pc' = "select") => cycleStart' = current_floor]_vars

\* C11 witness: a second cycle has started from the floor the first one
\* assigned.
C11_Witness ==
    pc = "select_test" /\ tgt_hex # <<>> /\ tgt_hex = floor_to_hex(current_floor)

\* The monitor is in its loop.
InMonitorLoop == m_pc \in {"m_while", "m_read", "m_got"}

\* C12: a heartbeat is printed only in the handling of a read of zero bytes,
\* when more than 10 seconds have passed since last_activity; it sets
\* last_activity to the time it read, it is the only one of its iteration,
\* and it comes more than 10 seconds after the heartbeat before it and after
\* the frame log before it.
C12_HeartbeatOncePerIdleWindow ==
    [][iterBeats' > iterBeats =>
          /\ m_pc = "m_got" /\ n = 0
          /\ now - last_activity > 10
          /\ last_activity' = now
          /\ lastBeatAt' = now
          /\ iterBeats' = 1
          /\ iterLogs' = 0
          /\ lastBeatAt >= 0 => now - lastBeatAt > 10
          /\ lastDataAt >= 0 => now - lastDataAt > 10]_vars

\* C12 witness: a heartbeat has been printed after a frame log.
C12_Witness == iterBeats = 1 /\ lastDataAt > 0 /\ lastBeatAt > lastDataAt

\* C13: the handling of a read of n > 0 bytes is the one next step of the
\* loop, whatever came before; it prints one frame log, the only one of its
\* iteration, of exactly the n bytes read, each as two uppercase hex digits
\* and as itself if printable (32 to 126) or a dot, and sets last_activity
\* to the time it read; no heartbeat is printed in that iteration.
C13_NonEmptyReadLogged ==
    /\ []((m_pc = "m_got" /\ n > 0) => (iterLogs = 0 /\ iterBeats = 0 /\ Len(buf) = n))
    /\ [][(m_pc = "m_got" /\ n > 0 /\ m_pc' # m_pc) =>
             /\ iterLogs' = 1
             /\ iterBeats' = 0
             /\ lastLog'.len = n
             /\ Len(lastLog'.hex) = 2 * n
             /\ Len(lastLog'.ascii) = n
             /\ \A j \in 1 .. n :
                   /\ 16 * HexVal(lastLog'.hex[2 * j - 1]) + HexVal(lastLog'.hex[2 * j]) = buf[j]
                   /\ HexVal(lastLog'.hex[2 * j - 1]) >= 0
                   /\ HexVal(lastLog'.hex[2 * j]) >= 0
                   /\ lastLog'.ascii[j] = IF buf[j] \in 32 .. 126 THEN buf[j] ELSE 46
             /\ lastLog'.at = now
             /\ last_activity' = now
             /\ m_pc' = "m_while"]_vars

\* C13 witness: a frame of more than one byte has been logged, after a
\* heartbeat and with the flag already set.
C13_Witness ==
    /\ iterLogs = 1 /\ lastLog.len > 1 /\ last_activity = lastLog.at
    /\ lastBeatAt >= 0 /\ lastLog.at > lastBeatAt
    /\ m_pc = "m_while" /\ stopped

\* C14: the handling of a read error goes back to the loop's test and
\* changes nothing else: last_activity, the frame logs and heartbeats
\* printed, the descriptor, which is open; the loop's test, with the flag not
\* set, then calls read again on it; the loop is left only with the flag set,
\* however many errors came in a row.
C14_ReadErrorNotFatal ==
    /\ []((m_pc = "m_got" /\ n < 0) => (iterLogs = 0 /\ iterBeats = 0 /\ fd = "open"))
    /\ []((m_pc = "m_exit" \/ (m_pc = "m_done" /\ fd = "closed" /\ ~openFailed)) => ~m_running)
    /\ [][/\ (m_pc = "m_got" /\ n < 0 /\ m_pc' # m_pc) =>
                /\ m_pc' = "m_while"
                /\ UNCHANGED <<last_activity, iterLogs, iterBeats, lastLog, lastBeatAt,
                               lastDataAt, fd, closes, m_ret>>
          /\ (m_pc = "m_while" /\ m_running /\ m_pc' # m_pc) =>
                (m_pc' = "m_read" /\ fd' = "open")]_vars

\* C14 witness: read is called again after MaxErrs read errors in a row.
C14_Witness == errs = MaxErrs /\ m_pc = "m_read" /\ m_running /\ fd = "open"

\* C15: no read is called after a read has returned with the flag set, and
\* none on a descriptor that is not open; the descriptor is open and not yet
\* closed throughout the loop, and closed by exactly one close when main
\* has returned.
C15_MonitorStopsAndCloses ==
    /\ ~readAfterStop
    /\ ~readNotOpen
    /\ stopped => m_pc \in {"m_got", "m_while", "m_exit", "m_done"}
    /\ (InMonitorLoop \/ m_pc = "m_exit") => (fd = "open" /\ closes = 0)
    /\ (m_pc = "m_done" /\ fd # "none") => (fd = "closed" /\ closes = 1)

\* C15 witness: main has returned after a read that returned with the flag
\* set, and the descriptor is closed.
C15_Witness == m_pc = "m_done" /\ stopped /\ fd = "closed" /\ closes = 1

\* C16: when the serial port cannot be opened or configured, the transmitter
\* and the monitor alike end without having entered their loop (no telegram
\* written, no read called, the open not tried again) and with a return
\* value other than 0.
C16_OpenFailureExitsNonZero ==
    /\ pc = "failed" => (exitCode # 0 /\ exitCode # -1 /\ log = <<>> /\ lastFrame = <<>>)
    /\ openFailed =>
          /\ m_pc \in {"m_open_failed", "m_done"}
          /\ fd # "open"
          /\ n = 0 /\ errs = 0 /\ lastLog = NoLog /\ lastBeatAt = -1
          /\ m_pc = "m_done" => m_ret # 0

\* C17: under a fair draw, whatever current_floor is, the do-while that a
\* started cycle enters is left in the end, with the first burst's
\* floor_to_hex(current_floor) next.
C17_SelectTargetTerminates == (pc = "select") ~> (pc = "hex_cur")

\* C17 witness: the do-while has been left after it had drawn again.
C17_Witness == pc = "hex_cur" /\ resampled /\ target_floor # current_floor

SendVals(l, stage) == {l[k].val : k \in {j \in 1 .. Len(l) : l[j].ev = "send" /\ l[j].stage = stage}}

\* C19: the AnnounceTarget telegrams of a cycle carry tgt_hex, which is kept
\* until the next cycle's floor_to_hex(target_floor, tgt_hex); the
\* AnnounceCurrent telegrams of that next cycle carry the same value, and in
\* every cycle the AnnounceCurrent and the AnnounceTarget telegrams carry
\* different values.
C19_AnnouncedFloorsChain ==
    /\ [](/\ SendVals(log, "AnnounceTarget") \subseteq {tgt_hex}
          /\ (tgt_hex # <<>> /\ pc \in {"ac_test", "ac_send", "ac_sleep", "ac_chk", "w1", "hex_tgt"}) =>
                SendVals(log, "AnnounceCurrent") \subseteq {tgt_hex}
          /\ SendVals(log, "AnnounceCurrent") \cap SendVals(log, "AnnounceTarget") = {})
    /\ [][pc # "hex_tgt" => tgt_hex' = tgt_hex]_vars

\* C19 witness: a second cycle has sent its five AnnounceCurrent telegrams
\* with the first cycle's target.
C19_Witness ==
    /\ pc = "hex_tgt" /\ tgt_hex # <<>>
    /\ SendsOf(log, "AnnounceCurrent") = 5
    /\ SendVals(log, "AnnounceCurrent") = {tgt_hex}

\* C20: target_floor, from its draw to the end of the cycle, is one of -1,
\* 1, 2, 3; current_floor, once one of them, stays one of them, which it is
\* from the start if the start floor is one, and else from the first
\* assignment at the end of Arrival on.
C20_FloorsInSet ==
    /\ []((InLoop /\ pc \notin {"while", "select"}) => target_floor \in {-1, 1, 2, 3})
    /\ [][/\ current_floor \in {-1, 1, 2, 3} => current_floor' \in {-1, 1, 2, 3}
          /\ (pc = "assign" /\ pc' # pc) => current_floor' \in {-1, 1, 2, 3}]_vars

\* C20 witness: a cycle started from a floor outside the set has assigned
\* current_floor.
C20_Witness ==
    pc = "w4_test" /\ cycleStart \notin {-1, 1, 2, 3} /\ current_floor \in {-1, 1, 2, 3}

====
